---------------------------- MODULE Spec2Model ----------------------------
(***************************************************************************)
(* A model of the webhook side of paked/messenger: the Messenger client's   *)
(* handler registry (HandleMessage .. HandleAccountLinking), its HTTP       *)
(* handler (handle), the signature check (checkIntegrity), the event        *)
(* classifier (classify), the dispatch loop (dispatch) and the webhook       *)
(* verification handler (newVerifyHandler).                                  *)
(***************************************************************************)
EXTENDS Integers, Sequences, FiniteSets, TLC

VARIABLES
    \* ---- the Messenger object (messenger.go, type Messenger) ----
    handlers,     \* the seven handler slices, one sequence of handlers per kind
    opts,         \* token, verify, appSecret and the verify handler's token
    \* ---- the request being served by Messenger.handle ----
    req,          \* the *http.Request: method, query, header, body
    pc,           \* where handle/dispatch stands
    pos,          \* dispatch's loop position: entry i, event j, handler k
    ranged,       \* the handler slice the innermost range loop iterates
    resp,         \* the *Response built for the current event
    response,     \* what has been written to the http.ResponseWriter
    calls,        \* every handler invocation of this request, in order
    ran,          \* the calls handle has made on the request, in order
    heap,         \* the Response structs dispatch has allocated for the request
    \* ---- a single call of classify ----
    cInfo, cAction,
    \* ---- a single call of checkIntegrity ----
    vSecret, vHeader, vBody, vResult,
    \* ---- a single conversion of an event's timestamp ----
    tInfo, tTime,
    \* ---- a registration racing with a dispatch: the memory they share ----
    mem,          \* the backing arrays of the handler slice
    hdr,          \* the slice header: pointer, length and capacity words
    writer,       \* the goroutine in a registration method (the append)
    reader,       \* the goroutine in dispatch (the range loop)
    \* ---- the payload dispatch takes out of a single event ----
    cArg,
    \* ---- the request body and its two readers ----
    rBody,        \* r.Body, the stream the body is read from
    decoded,      \* the bytes handle gives to json.Unmarshal
    digested,     \* the bytes checkIntegrity writes to the HMAC
    \* ---- one envelope delivered twice ----
    first,        \* what serving it the first time did
    \* ---- two requests served at once ----
    serving       \* the locals of the two goroutines in handle

vars == <<handlers, opts, req, pc, pos, ranged, resp, response, calls, ran, heap,
          cInfo, cAction, vSecret, vHeader, vBody, vResult, tInfo, tTime,
          mem, hdr, writer, reader, cArg, rBody, decoded, digested, first, serving>>

serverVars == <<handlers, opts, req, pc, pos, ranged, resp, response, calls, ran, heap>>
classifyVars == <<cInfo, cAction>>
verifyVars == <<vSecret, vHeader, vBody, vResult>>
timeVars == <<tInfo, tTime>>
raceVars == <<mem, hdr, writer, reader>>
bodyVars == <<rBody, decoded, digested>>
moreVars == <<cArg, bodyVars, first, serving>>

---------------------------------------------------------------------------
(* Pointers: a nil pointer is the empty sequence, a pointer to x is <<x>>. *)

Nil == <<>>
Ptr(x) == <<x>>
Deref(p) == p[1]

(* The Action enumeration. *)
UnknownAction == "UnknownAction"
TextAction == "TextAction"
DeliveryAction == "DeliveryAction"
ReadAction == "ReadAction"
PostBackAction == "PostBackAction"
OptInAction == "OptInAction"
ReferralAction == "ReferralAction"
AccountLinkingAction == "AccountLinkingAction"

Kinds == {TextAction, DeliveryAction, ReadAction, PostBackAction,
          OptInAction, ReferralAction, AccountLinkingAction}

(* The payload structs as json.Unmarshal leaves them: the fields tagged     *)
(* json:"-" (Sender, Recipient, Time) keep their zero values.               *)
Sender(id) == [ID |-> id]
Recipient(id) == [ID |-> id]

(* A time.Time: the zero Time is <<>>, time.Unix(sec, 0) is <<sec>>. *)
ZeroTime == <<>>
Unix(sec) == <<sec>>

Message ==
    [Sender |-> Sender(0), Recipient |-> Recipient(0), Time |-> ZeroTime, Text |-> "hi"]
Delivery == [Mids |-> <<"mid.1">>, RawWatermark |-> 7000, Seq |-> 37]
Read == [RawWatermark |-> 8000, Seq |-> 38]
PostBack ==
    [Sender |-> Sender(0), Recipient |-> Recipient(0), Time |-> ZeroTime, Payload |-> "pb"]
OptIn ==
    [Sender |-> Sender(0), Recipient |-> Recipient(0), Time |-> ZeroTime, Ref |-> "ref"]
ReferralMessage ==
    [Sender |-> Sender(0), Recipient |-> Recipient(0), Time |-> ZeroTime, Ref |-> "rm"]
AccountLinking ==
    [Sender |-> Sender(0), Recipient |-> Recipient(0), Time |-> ZeroTime, Status |-> "linked"]

(* A MessageInfo with the given sender, recipient, timestamp and pointers.  *)
MessageInfo(s, r, t, m, d, rd, pb, oi, rf, al) ==
    [Sender |-> s, Recipient |-> r, Timestamp |-> t,
     Message |-> m, Delivery |-> d, PostBack |-> pb, Read |-> rd,
     OptIn |-> oi, ReferralMessage |-> rf, AccountLinking |-> al]

---------------------------------------------------------------------------
(* classify: the first non-nil pointer, tested in the order of the if chain *)

classifyDeliveryFirst(info) ==
    IF info.Delivery # Nil THEN DeliveryAction
    ELSE IF info.Message # Nil THEN TextAction
    ELSE IF info.Read # Nil THEN ReadAction
    ELSE IF info.PostBack # Nil THEN PostBackAction
    ELSE IF info.OptIn # Nil THEN OptInAction
    ELSE IF info.ReferralMessage # Nil THEN ReferralAction
    ELSE IF info.AccountLinking # Nil THEN AccountLinkingAction
    ELSE UnknownAction

classifyNoAccountLinking(info) ==
    IF info.Message # Nil THEN TextAction
    ELSE IF info.Delivery # Nil THEN DeliveryAction
    ELSE IF info.Read # Nil THEN ReadAction
    ELSE IF info.PostBack # Nil THEN PostBackAction
    ELSE IF info.OptIn # Nil THEN OptInAction
    ELSE IF info.ReferralMessage # Nil THEN ReferralAction
    ELSE UnknownAction

(* classify answering TextAction where the code answers UnknownAction. *)
classifyTextByDefault(info) ==
    IF info.Message # Nil THEN TextAction
    ELSE IF info.Delivery # Nil THEN DeliveryAction
    ELSE IF info.Read # Nil THEN ReadAction
    ELSE IF info.PostBack # Nil THEN PostBackAction
    ELSE IF info.OptIn # Nil THEN OptInAction
    ELSE IF info.ReferralMessage # Nil THEN ReferralAction
    ELSE IF info.AccountLinking # Nil THEN AccountLinkingAction
    ELSE TextAction

classify(info) ==
    IF info.Message # Nil THEN TextAction
    ELSE IF info.Delivery # Nil THEN DeliveryAction
    ELSE IF info.Read # Nil THEN ReadAction
    ELSE IF info.PostBack # Nil THEN PostBackAction
    ELSE IF info.OptIn # Nil THEN OptInAction
    ELSE IF info.ReferralMessage # Nil THEN ReferralAction
    ELSE IF info.AccountLinking # Nil THEN AccountLinkingAction
    ELSE UnknownAction

---------------------------------------------------------------------------
(* Strings that the code takes apart (the X-Hub-Signature header, the hex   *)
(* digest) are sequences of one-character strings.                          *)

(* strings.ToLower, on the letters that occur in the model's headers. *)
LowerChar(c) ==
    CASE c = "A" -> "a"
      [] c = "B" -> "b"
      [] c = "S" -> "s"
      [] c = "H" -> "h"
      [] OTHER -> c

ToLower(s) == [n \in 1..Len(s) |-> LowerChar(s[n])]

(* strings.Index for a one-character separator: 0 when it does not occur. *)
Index(s, sep) ==
    IF \E n \in 1..Len(s) : s[n] = sep
    THEN CHOOSE n \in 1..Len(s) : s[n] = sep /\ \A q \in 1..(n-1) : s[q] # sep
    ELSE 0

(* strings.SplitN(s, sep, 2): at most two pieces, cut at the first sep. *)
SplitN2(s, sep) ==
    IF Index(s, sep) = 0 THEN <<s>>
    ELSE <<SubSeq(s, 1, Index(s, sep) - 1), SubSeq(s, Index(s, sep) + 1, Len(s))>>

(* The request bodies: a body either is no JSON at all, or spells an        *)
(* envelope with an "object" and a list of entries.                         *)
MalformedBody == [valid |-> FALSE, Object |-> "", Entry |-> <<>>]
JSONBody(object, entry) == [valid |-> TRUE, Object |-> object, Entry |-> entry]

(* The digest is modelled DigestLen hex digits long. *)
DigestLen == 2

MacDigits == <<"0", "a", "b">>

KeyNum(secret) == CASE secret = "k1" -> 1 [] secret = "k2" -> 2 [] OTHER -> 0

BodyNum(body) ==
    (IF body.valid THEN 0 ELSE 1) + (IF body.Object = "page" THEN 0 ELSE 2)
    + Len(body.Entry)

(* fmt.Sprintf("%x", mac.Sum(nil)) for mac = hmac.New(sha1.New, secret)     *)
(* written with body: a fixed lowercase hex string for each (body, secret). *)
hexHmacSha1(body, secret) ==
    [n \in 1..DigestLen |->
        MacDigits[((BodyNum(body) + 2 * KeyNum(secret) + n * KeyNum(secret)) % Len(MacDigits)) + 1]]

(* The errors checkIntegrity returns; NoError is the nil error. *)
NoError == "nil"
ErrMissingSecret == "missing app secret"
ErrMissingHeader == "missing X-Hub-Signature header"
ErrMalformedHeader == "malformed X-Hub-Signature header"
ErrInvalidSignature == "invalid signature"
ErrUnknownEncoding == "unknown X-Hub-Signature header encoding, expected sha1"

(* The closure checkSHA1 of checkIntegrity. *)
checkSHA1(appSecret, body, hash) ==
    IF hexHmacSha1(body, appSecret) # hash THEN ErrInvalidSignature ELSE NoError

(* checkIntegrity with the digest compared as the header spells it. *)
checkIntegrityCaseSensitive(appSecret, header, body) ==
    IF appSecret = "" THEN ErrMissingSecret
    ELSE LET sig == SplitN2(header, "=") IN
         IF Len(sig) = 1
         THEN IF sig[1] = <<>> THEN ErrMissingHeader ELSE ErrMalformedHeader
         ELSE IF ToLower(sig[1]) = <<"s", "h", "a", "1">>
              THEN checkSHA1(appSecret, body, sig[2])
              ELSE ErrUnknownEncoding

(* checkIntegrity without the test of m.appSecret. *)
checkIntegrityNoSecretCheck(appSecret, header, body) ==
    LET sig == SplitN2(header, "=") IN
    IF Len(sig) = 1
    THEN IF sig[1] = <<>> THEN ErrMissingHeader ELSE ErrMalformedHeader
    ELSE IF ToLower(sig[1]) = <<"s", "h", "a", "1">>
         THEN checkSHA1(appSecret, body, ToLower(sig[2]))
         ELSE ErrUnknownEncoding

(* checkIntegrity: appSecret is m.appSecret, header is                      *)
(* r.Header.Get("X-Hub-Signature") and body is what ReadAll(r.Body) gives.  *)
checkIntegrity(appSecret, header, body) ==
    IF appSecret = "" THEN ErrMissingSecret
    ELSE LET sig == SplitN2(header, "=") IN
         IF Len(sig) = 1
         THEN IF sig[1] = <<>> THEN ErrMissingHeader ELSE ErrMalformedHeader
         ELSE LET sigEnc == ToLower(sig[1])
                  sigHash == ToLower(sig[2])
              IN IF sigEnc = <<"s", "h", "a", "1">>
                 THEN checkSHA1(appSecret, body, sigHash)
                 ELSE ErrUnknownEncoding

---------------------------------------------------------------------------
(* The Messenger object and the requests it is sent *)

(* The handler functions the application registers, by handler type. *)
MessageHandlers == {"onMessage1", "onMessage2"}
DeliveryHandlers == {"onDelivery1", "onDelivery2"}
ReadHandlers == {"onRead"}
PostBackHandlers == {"onPostBack"}
OptInHandlers == {"onOptIn"}
ReferralHandlers == {"onReferral"}
AccountLinkingHandlers == {"onAccountLinking"}

(* The handler functions that each slice of the registry can hold. *)
HandlersOfSlice ==
    [messageHandlers |-> MessageHandlers, deliveryHandlers |-> DeliveryHandlers,
     readHandlers |-> ReadHandlers, postBackHandlers |-> PostBackHandlers,
     optInHandlers |-> OptInHandlers, referralHandlers |-> ReferralHandlers,
     accountLinkingHandlers |-> AccountLinkingHandlers]

(* At most MaxHandlers registrations are made in all. *)
MaxHandlers == 2

(* An envelope has at most MaxEntries entries and MaxEvents events in all. *)
MaxEntries == 2
MaxEvents == 2

NoHandlers ==
    [messageHandlers |-> <<>>, deliveryHandlers |-> <<>>, readHandlers |-> <<>>,
     postBackHandlers |-> <<>>, optInHandlers |-> <<>>, referralHandlers |-> <<>>,
     accountLinkingHandlers |-> <<>>]

Registered(h) ==
    Len(h.messageHandlers) + Len(h.deliveryHandlers) + Len(h.readHandlers)
    + Len(h.postBackHandlers) + Len(h.optInHandlers) + Len(h.referralHandlers)
    + Len(h.accountLinkingHandlers)

(* Options as passed to New: verification on or off, with and without an   *)
(* app secret, with and without a verify token.                            *)
Options ==
    { [token |-> "page-token", verify |-> FALSE, appSecret |-> "", verifyToken |-> "tok"],
      [token |-> "page-token", verify |-> FALSE, appSecret |-> "k1", verifyToken |-> ""],
      [token |-> "page-token", verify |-> TRUE, appSecret |-> "k1", verifyToken |-> "tok"],
      [token |-> "page-token", verify |-> TRUE, appSecret |-> "", verifyToken |-> ""] }

(* The events (MessageInfo) that the envelopes are made of. *)
TextEvent ==
    MessageInfo(Sender(111), Recipient(222), 1999, Ptr(Message), Nil, Nil, Nil, Nil, Nil, Nil)
DeliveryEvent ==
    MessageInfo(Sender(333), Recipient(222), 2001, Nil, Ptr(Delivery), Nil, Nil, Nil, Nil, Nil)
UnknownEvent ==
    MessageInfo(Sender(111), Recipient(222), 1001, Nil, Nil, Nil, Nil, Nil, Nil, Nil)

(* Envelopes of several events are made of these. *)
Events == {TextEvent, DeliveryEvent, UnknownEvent}

(* Envelopes of one event are also made of these. *)
MoreEvents ==
    { MessageInfo(Sender(111), Recipient(222), 2999, Nil, Nil, Ptr(Read), Nil, Nil, Nil, Nil),
      MessageInfo(Sender(333), Recipient(222), 3000, Nil, Nil, Nil, Ptr(PostBack), Nil, Nil, Nil),
      MessageInfo(Sender(111), Recipient(222), 3001, Nil, Nil, Nil, Nil, Ptr(OptIn), Nil, Nil),
      MessageInfo(Sender(333), Recipient(222), 999, Nil, Nil, Nil, Nil, Nil, Ptr(ReferralMessage), Nil),
      MessageInfo(Sender(111), Recipient(222), 0, Nil, Nil, Nil, Nil, Nil, Nil, Ptr(AccountLinking)),
      MessageInfo(Sender(333), Recipient(222), 1000, Ptr(Message), Ptr(Delivery), Nil, Nil, Nil, Nil, Nil) }

SeqsUpTo(S, n) == UNION {[1..m -> S] : m \in 0..n}

Entry(messaging) == [ID |-> 1, Time |-> 1458, Messaging |-> messaging]

RECURSIVE CountEvents(_)
CountEvents(entries) ==
    IF entries = <<>> THEN 0
    ELSE Len(Head(entries).Messaging) + CountEvents(Tail(entries))

Entries ==
    { e \in SeqsUpTo({Entry(m) : m \in SeqsUpTo(Events, MaxEvents)}, MaxEntries) :
        CountEvents(e) <= MaxEvents }
    \cup { <<Entry(<<e>>)>> : e \in MoreEvents }

(* The bodies: one that is no JSON, the envelopes of a page, and two        *)
(* envelopes whose "object" is not "page".                                  *)
Bodies ==
    {MalformedBody} \cup {JSONBody("page", e) : e \in Entries}
    \cup {JSONBody("user", <<>>), JSONBody("user", <<Entry(<<TextEvent>>)>>)}

FormKeys == {"hub.verify_token", "hub.challenge"}
NoForm == [key \in FormKeys |-> Nil]

SHA1Prefix == <<"s", "h", "a", "1", "=">>

(* The X-Hub-Signature value that signs body b under the secret "k1". *)
Signed(b) == SHA1Prefix \o hexHmacSha1(b, "k1")

(* Other X-Hub-Signature values sent with body b: none, the digest under    *)
(* another secret, a value without "=", and another encoding.               *)
BadHeadersFor(b) ==
    { <<>>,
      SHA1Prefix \o hexHmacSha1(b, "k2"),
      <<"s", "h", "a", "1">>,
      <<"s", "h", "a", "2", "5", "6", "=">> \o hexHmacSha1(b, "k1") }

GetRequests ==
    { [Method |-> "GET",
       Form |-> [key \in FormKeys |-> IF key = "hub.verify_token" THEN t ELSE c],
       Header |-> <<>>, Body |-> MalformedBody] :
        t \in {Nil, Ptr(""), Ptr("tok"), Ptr("bad")}, c \in {Nil, Ptr("c1")} }

(* Every body arrives correctly signed; the bodies of at most one event     *)
(* also arrive unsigned and wrongly signed.                                 *)
PostRequests ==
    { [Method |-> "POST", Form |-> NoForm, Header |-> Signed(b), Body |-> b] : b \in Bodies }
    \cup UNION { { [Method |-> "POST", Form |-> NoForm, Header |-> h, Body |-> b] :
                     h \in BadHeadersFor(b) } :
                 b \in {x \in Bodies : CountEvents(x.Entry) <= 1} }

(* A GET that carries a signed body, with and without the query. *)
GetRequestsWithBody ==
    { [Method |-> "GET",
       Form |-> [key \in FormKeys |-> IF key = "hub.verify_token" THEN t ELSE Ptr("c1")],
       Header |-> Signed(JSONBody("page", <<Entry(<<TextEvent>>)>>)),
       Body |-> JSONBody("page", <<Entry(<<TextEvent>>)>>)] : t \in {Nil, Ptr("tok")} }

(* Requests of another method than GET and POST, signed and unsigned. *)
PutRequests ==
    UNION { { [Method |-> "PUT", Form |-> NoForm, Header |-> h, Body |-> b] :
                h \in {Signed(b), <<>>} } :
            b \in {MalformedBody, JSONBody("page", <<Entry(<<TextEvent>>)>>)} }

Requests == GetRequests \cup PostRequests \cup GetRequestsWithBody \cup PutRequests

NoRequest == [Method |-> "", Form |-> NoForm, Header |-> <<>>, Body |-> MalformedBody]
NoResponse == [to |-> Recipient(0), token |-> ""]
NoPos == [n |-> 0, k |-> 0, a |-> UnknownAction]

---------------------------------------------------------------------------
(* The pieces of handle and dispatch *)

(* r.FormValue(key): the empty string when the parameter is absent. *)
FormValue(r, key) == IF r.Form[key] = Nil THEN "" ELSE Deref(r.Form[key])

(* fmt.Fprintln(w, s) writes s and a newline. *)
Fprintln(s) == s \o "\n"

Ok == "{status: 'ok'}"
NotOk == "{status: 'not ok'}"
IncorrectVerifyToken == "Incorrect verify token."

(* The closure newVerifyHandler(token) applied to request r: what it writes. *)
verifyHandlerAnyToken(token, r) == Fprintln(FormValue(r, "hub.challenge"))

verifyHandler(token, r) ==
    IF FormValue(r, "hub.verify_token") = token
    THEN Fprintln(FormValue(r, "hub.challenge"))
    ELSE Fprintln(IncorrectVerifyToken)

(* json.Unmarshal(body, &rec): the error and the Receive it fills in. *)
Unmarshal(body) ==
    IF body.valid
    THEN [err |-> FALSE, rec |-> [Object |-> body.Object, Entry |-> body.Entry]]
    ELSE [err |-> TRUE, rec |-> [Object |-> "", Entry |-> <<>>]]

(* What handle does with a request before it dispatches: "verify" for a GET, *)
(* "not ok" when decoding or the integrity check fails, else "dispatch".     *)
handlePathNoIntegrity(m, r) ==
    IF r.Method = "GET" THEN "verify"
    ELSE IF Unmarshal(r.Body).err THEN "not ok"
    ELSE "dispatch"

(* handle answering 'not ok' to an envelope without entries. *)
handlePathRejectsNoEntries(m, r) ==
    IF r.Method = "GET" THEN "verify"
    ELSE IF Unmarshal(r.Body).err \/ Unmarshal(r.Body).rec.Entry = <<>> THEN "not ok"
    ELSE IF m.verify /\ checkIntegrity(m.appSecret, r.Header, r.Body) # NoError
    THEN "not ok"
    ELSE "dispatch"

(* handle answering 'not ok' where the code only logs rec.Object. *)
handlePathRejectsOtherObjects(m, r) ==
    IF r.Method = "GET" THEN "verify"
    ELSE IF Unmarshal(r.Body).err \/ Unmarshal(r.Body).rec.Object # "page" THEN "not ok"
    ELSE IF m.verify /\ checkIntegrity(m.appSecret, r.Header, r.Body) # NoError
    THEN "not ok"
    ELSE "dispatch"

(* handle checking the signature whether or not m.verify is set. *)
handlePathAlwaysVerifies(m, r) ==
    IF r.Method = "GET" THEN "verify"
    ELSE IF Unmarshal(r.Body).err THEN "not ok"
    ELSE IF checkIntegrity(m.appSecret, r.Header, r.Body) # NoError
    THEN "not ok"
    ELSE "dispatch"

(* handle taking every method but POST for the verification request. *)
handlePathOnlyPost(m, r) ==
    IF r.Method # "POST" THEN "verify"
    ELSE IF Unmarshal(r.Body).err THEN "not ok"
    ELSE IF m.verify /\ checkIntegrity(m.appSecret, r.Header, r.Body) # NoError
    THEN "not ok"
    ELSE "dispatch"

handlePath(m, r) ==
    IF r.Method = "GET" THEN "verify"
    ELSE IF Unmarshal(r.Body).err THEN "not ok"
    ELSE IF m.verify /\ checkIntegrity(m.appSecret, r.Header, r.Body) # NoError
    THEN "not ok"
    ELSE "dispatch"

(* The calls handle makes on a request, in the order it makes them. *)
handleCalls(m, r) ==
    IF r.Method = "GET" THEN <<"verifyHandler">>
    ELSE IF Unmarshal(r.Body).err THEN <<"json.Unmarshal">>
    ELSE IF ~m.verify THEN <<"json.Unmarshal", "dispatch">>
    ELSE IF checkIntegrity(m.appSecret, r.Header, r.Body) # NoError
    THEN <<"json.Unmarshal", "checkIntegrity">>
    ELSE <<"json.Unmarshal", "checkIntegrity", "dispatch">>

(* The order in which dispatch's two range loops visit the events of rec:   *)
(* entry by entry, and within an entry event by event.                      *)
EntryPositions(rec, i) ==
    [j \in 1..Len(rec.Entry[i].Messaging) |-> [i |-> i, j |-> j]]

RECURSIVE OrderFrom(_, _)
OrderFrom(rec, i) ==
    IF i > Len(rec.Entry) THEN <<>>
    ELSE EntryPositions(rec, i) \o OrderFrom(rec, i + 1)

RECURSIVE OrderDownFrom(_, _)
OrderDownFrom(rec, i) ==
    IF i < 1 THEN <<>>
    ELSE EntryPositions(rec, i) \o OrderDownFrom(rec, i - 1)

EntriesLastFirst(rec) == OrderDownFrom(rec, Len(rec.Entry))

Order(rec) == OrderFrom(rec, 1)

EventAt(rec, p) == rec.Entry[p.i].Messaging[p.j]

(* The switch with the slices of the first two cases exchanged. *)
HandlersForSwapped(h, a) ==
    CASE a = TextAction -> h.deliveryHandlers
      [] a = DeliveryAction -> h.messageHandlers
      [] a = ReadAction -> h.readHandlers
      [] a = PostBackAction -> h.postBackHandlers
      [] a = OptInAction -> h.optInHandlers
      [] a = ReferralAction -> h.referralHandlers
      [] a = AccountLinkingAction -> h.accountLinkingHandlers

(* The slice the switch of dispatch ranges over for action a. *)
HandlersFor(h, a) ==
    CASE a = TextAction -> h.messageHandlers
      [] a = DeliveryAction -> h.deliveryHandlers
      [] a = ReadAction -> h.readHandlers
      [] a = PostBackAction -> h.postBackHandlers
      [] a = OptInAction -> h.optInHandlers
      [] a = ReferralAction -> h.referralHandlers
      [] a = AccountLinkingAction -> h.accountLinkingHandlers

(* time.Microsecond, in nanoseconds. *)
Microsecond == 1000

(* No division, as in the first version's time.Unix(info.Timestamp, 0). *)
NoDiv(a, b) == a

(* Go's integer division truncates toward zero. *)
GoDiv(a, b) == IF a >= 0 THEN a \div b ELSE -((-a) \div b)

(* The copy of the payload struct without the assignment of Recipient. *)
StampedNoRecipient(payload, info) ==
    [payload EXCEPT !.Sender = info.Sender,
                    !.Time = Unix(GoDiv(info.Timestamp, Microsecond))]

(* The copy of the payload struct with Sender, Recipient and Time filled in. *)
Stamped(payload, info) ==
    [payload EXCEPT !.Sender = info.Sender, !.Recipient = info.Recipient,
                    !.Time = Unix(GoDiv(info.Timestamp, Microsecond))]

(* The first argument of the handler call in each case of the switch. *)
Argument(a, info) ==
    CASE a = TextAction -> Stamped(Deref(info.Message), info)
      [] a = DeliveryAction -> Deref(info.Delivery)
      [] a = ReadAction -> Deref(info.Read)
      [] a = PostBackAction -> Stamped(Deref(info.PostBack), info)
      [] a = OptInAction -> Stamped(Deref(info.OptIn), info)
      [] a = ReferralAction -> Stamped(Deref(info.ReferralMessage), info)
      [] a = AccountLinkingAction -> Stamped(Deref(info.AccountLinking), info)

(* The *Response dispatch builds for an event. *)
NewResponse(m, info) == [to |-> Recipient(info.Sender.ID), token |-> m.token]

(* One Response struct kept for all events and overwritten for each. *)
AllocateOnce(h, r) == <<r>>

(* resp := &Response{...}: a struct of its own on the heap h, whose address *)
(* is its index there.                                                      *)
Allocate(h, r) == Append(h, r)

(* No timestamp conversion is being looked at. *)
NoStamp ==
    /\ tInfo = MessageInfo(Sender(0), Recipient(0), 0, Nil, Nil, Nil, Nil, Nil, Nil, Nil)
    /\ tTime = ZeroTime

(* No payload taken, no body read, nothing delivered twice, no two         *)
(* requests at once.                                                        *)
NoPayload == [fault |-> FALSE, payload |-> <<>>]
NoStream == [data |-> <<>>, off |-> 0]
NoMore ==
    /\ cArg = NoPayload
    /\ rBody = NoStream
    /\ decoded = <<>>
    /\ digested = <<>>
    /\ first = [pc |-> "none"]
    /\ serving = <<>>

(* A nil slice: no backing array, length and capacity zero. *)
NilSlice == [ptr |-> 0, len |-> 0, cap |-> 0]

(* No registration races with a dispatch. *)
NoRace ==
    /\ mem = <<>>
    /\ hdr = NilSlice
    /\ writer = [pc |-> "none"]
    /\ reader = [pc |-> "none"]

---------------------------------------------------------------------------
(* The server: registration, and one request at a time through handle *)

Init ==
    /\ handlers = NoHandlers
    /\ opts \in Options
    /\ req = NoRequest
    /\ pc = "idle"
    /\ pos = NoPos
    /\ ranged = <<>>
    /\ resp = NoResponse
    /\ response = <<>>
    /\ calls = <<>>
    /\ ran = <<>>
    /\ heap = <<>>
    /\ cInfo = MessageInfo(Sender(0), Recipient(0), 0, Nil, Nil, Nil, Nil, Nil, Nil, Nil)
    /\ cAction = ""
    /\ vSecret = ""
    /\ vHeader = <<>>
    /\ vBody = MalformedBody
    /\ vResult = ""
    /\ NoStamp
    /\ NoRace
    /\ NoMore

requestVars == <<req, pc, pos, ranged, resp, response, calls, ran, heap>>

(* The registration methods: each appends to its own slice. The            *)
(* application registers while no request is being served, as the tests    *)
(* and the example program do.                                             *)
(* A registration that stores f as the only handler, as Messenger.Handle    *)
(* of the first version of the package did.                                 *)
HandleMessageReplaces ==
    /\ pc = "idle"
    /\ Registered(handlers) < MaxHandlers
    /\ \E f \in MessageHandlers :
        handlers' = [handlers EXCEPT !.messageHandlers = <<f>>]
    /\ UNCHANGED <<opts, requestVars, classifyVars, verifyVars, timeVars, moreVars, raceVars>>

HandleMessage ==
    /\ pc = "idle"
    /\ Registered(handlers) < MaxHandlers
    /\ \E f \in MessageHandlers :
        handlers' = [handlers EXCEPT !.messageHandlers = Append(@, f)]
    /\ UNCHANGED <<opts, requestVars, classifyVars, verifyVars, timeVars, moreVars, raceVars>>

HandleDelivery ==
    /\ pc = "idle"
    /\ Registered(handlers) < MaxHandlers
    /\ \E f \in DeliveryHandlers :
        handlers' = [handlers EXCEPT !.deliveryHandlers = Append(@, f)]
    /\ UNCHANGED <<opts, requestVars, classifyVars, verifyVars, timeVars, moreVars, raceVars>>

HandleOptIn ==
    /\ pc = "idle"
    /\ Registered(handlers) < MaxHandlers
    /\ \E f \in OptInHandlers :
        handlers' = [handlers EXCEPT !.optInHandlers = Append(@, f)]
    /\ UNCHANGED <<opts, requestVars, classifyVars, verifyVars, timeVars, moreVars, raceVars>>

HandleRead ==
    /\ pc = "idle"
    /\ Registered(handlers) < MaxHandlers
    /\ \E f \in ReadHandlers :
        handlers' = [handlers EXCEPT !.readHandlers = Append(@, f)]
    /\ UNCHANGED <<opts, requestVars, classifyVars, verifyVars, timeVars, moreVars, raceVars>>

HandlePostBack ==
    /\ pc = "idle"
    /\ Registered(handlers) < MaxHandlers
    /\ \E f \in PostBackHandlers :
        handlers' = [handlers EXCEPT !.postBackHandlers = Append(@, f)]
    /\ UNCHANGED <<opts, requestVars, classifyVars, verifyVars, timeVars, moreVars, raceVars>>

HandleReferral ==
    /\ pc = "idle"
    /\ Registered(handlers) < MaxHandlers
    /\ \E f \in ReferralHandlers :
        handlers' = [handlers EXCEPT !.referralHandlers = Append(@, f)]
    /\ UNCHANGED <<opts, requestVars, classifyVars, verifyVars, timeVars, moreVars, raceVars>>

HandleAccountLinking ==
    /\ pc = "idle"
    /\ Registered(handlers) < MaxHandlers
    /\ \E f \in AccountLinkingHandlers :
        handlers' = [handlers EXCEPT !.accountLinkingHandlers = Append(@, f)]
    /\ UNCHANGED <<opts, requestVars, classifyVars, verifyVars, timeVars, moreVars, raceVars>>

(* The HTTP server calls m.handle with a request. *)
Receive ==
    /\ pc = "idle"
    /\ \E r \in Requests : req' = r
    /\ pc' = "handle"
    /\ calls' = <<>>
    /\ response' = <<>>
    /\ ran' = <<>>
    /\ heap' = <<>>
    /\ UNCHANGED <<handlers, opts, pos, ranged, resp, classifyVars, verifyVars, timeVars, moreVars, raceVars>>

(* The decoded envelope of the request being served. *)
rec == Unmarshal(req.Body).rec

(* The loop position after the event at index n of the order is finished:   *)
(* the next event, or the end of dispatch, where handle writes the ack.     *)
After(n) ==
    /\ pos' = [n |-> n + 1, k |-> 0, a |-> UnknownAction]
    /\ pc' = IF n + 1 > Len(Order(rec)) THEN "ack" ELSE "dispatch"

(* dispatch's "return" where the code has "continue". *)
ReturnOnUnknown(n) ==
    /\ pos' = [n |-> n + 1, k |-> 0, a |-> UnknownAction]
    /\ pc' = "ack"

(* The "continue" of an event classified as UnknownAction: on to the next   *)
(* event of the loops.                                                      *)
Continue(n) == After(n)

(* handle writing the acknowledgment before it calls dispatch. *)
HandleAcksFirst ==
    /\ pc = "handle"
    /\ LET path == handlePath(opts, req) IN
         CASE path = "verify" ->
                /\ response' = Append(response, verifyHandler(opts.verifyToken, req))
                /\ pc' = "done"
                /\ pos' = pos
           [] path = "not ok" ->
                /\ response' = Append(response, Fprintln(NotOk))
                /\ pc' = "done"
                /\ pos' = pos
           [] path = "dispatch" ->
                /\ response' = Append(response, Fprintln(Ok))
                /\ After(0)
    /\ ran' = handleCalls(opts, req)
    /\ UNCHANGED <<handlers, opts, req, ranged, resp, calls, heap,
                   classifyVars, verifyVars, timeVars, moreVars, raceVars>>

(* handle, up to its call of dispatch. *)
Handle ==
    /\ pc = "handle"
    /\ LET path == handlePath(opts, req) IN
         CASE path = "verify" ->
                /\ response' = Append(response, verifyHandler(opts.verifyToken, req))
                /\ pc' = "done"
                /\ pos' = pos
           [] path = "not ok" ->
                /\ response' = Append(response, Fprintln(NotOk))
                /\ pc' = "done"
                /\ pos' = pos
           [] path = "dispatch" ->
                /\ response' = response
                /\ After(0)
    /\ ran' = handleCalls(opts, req)
    /\ UNCHANGED <<handlers, opts, req, ranged, resp, calls, heap,
                   classifyVars, verifyVars, timeVars, moreVars, raceVars>>

(* One iteration of dispatch's inner loop, up to the first handler call:    *)
(* classify the event, build the Response, pick the slice to range over.    *)
DispatchEvent ==
    /\ pc = "dispatch"
    /\ LET info == EventAt(rec, Order(rec)[pos.n])
           a == classify(info)
       IN IF a = UnknownAction
          THEN /\ Continue(pos.n)
               /\ UNCHANGED <<resp, ranged, heap>>
          ELSE /\ resp' = NewResponse(opts, info)
               /\ heap' = Allocate(heap, NewResponse(opts, info))
               /\ ranged' = HandlersFor(handlers, a)
               /\ IF HandlersFor(handlers, a) = <<>>
                  THEN After(pos.n)
                  ELSE /\ pos' = [n |-> pos.n, k |-> 1, a |-> a]
                       /\ pc' = "invoke"
    /\ UNCHANGED <<handlers, opts, req, response, calls, ran,
                   classifyVars, verifyVars, timeVars, moreVars, raceVars>>

(* One handler call f(argument, resp). The handler returns, or it panics:   *)
(* nothing in dispatch or handle recovers, so the panic unwinds both.       *)
Invoke ==
    /\ pc = "invoke"
    /\ LET p == Order(rec)[pos.n]
           info == EventAt(rec, p)
       IN \E outcome \in {"returned", "panicked"} :
            /\ calls' = Append(calls,
                   [i |-> p.i, j |-> p.j, action |-> pos.a, handler |-> ranged[pos.k],
                    k |-> pos.k, arg |-> Argument(pos.a, info), resp |-> resp,
                    at |-> Len(heap), outcome |-> outcome])
            /\ IF outcome = "panicked"
               THEN pc' = "aborted" /\ pos' = pos
               ELSE IF pos.k < Len(ranged)
                    THEN pc' = "invoke" /\ pos' = [pos EXCEPT !.k = pos.k + 1]
                    ELSE After(pos.n)
    /\ UNCHANGED <<handlers, opts, req, ranged, resp, response, ran, heap,
                   classifyVars, verifyVars, timeVars, moreVars, raceVars>>

(* handle emptying the registry once it has written the acknowledgment. *)
AcknowledgeAndClear ==
    /\ pc = "ack"
    /\ response' = Append(response, Fprintln(Ok))
    /\ pc' = "done"
    /\ handlers' = NoHandlers
    /\ UNCHANGED <<opts, req, pos, ranged, resp, calls, ran, heap,
                   classifyVars, verifyVars, timeVars, moreVars, raceVars>>

(* dispatch has returned: handle writes the acknowledgment. *)
Acknowledge ==
    /\ pc = "ack"
    /\ response' = Append(response, Fprintln(Ok))
    /\ pc' = "done"
    /\ UNCHANGED <<handlers, opts, req, pos, ranged, resp, calls, ran, heap,
                   classifyVars, verifyVars, timeVars, moreVars, raceVars>>

(* handle has returned or was unwound; the server is ready for a request. *)
Finish ==
    /\ pc \in {"done", "aborted"}
    /\ pc' = "idle"
    /\ req' = NoRequest
    /\ pos' = NoPos
    /\ ranged' = <<>>
    /\ resp' = NoResponse
    /\ response' = <<>>
    /\ calls' = <<>>
    /\ ran' = <<>>
    /\ heap' = <<>>
    /\ UNCHANGED <<handlers, opts, classifyVars, verifyVars, timeVars, moreVars, raceVars>>

Next ==
    \/ HandleMessage \/ HandleDelivery \/ HandleOptIn \/ HandleRead
    \/ HandlePostBack \/ HandleReferral \/ HandleAccountLinking
    \/ Receive \/ Handle \/ DispatchEvent \/ Invoke \/ Acknowledge \/ Finish

Spec == Init /\ [][Next]_vars

---------------------------------------------------------------------------
(* classify on its own, over every combination of nil and non-nil pointers *)

InitClassify ==
    /\ handlers = NoHandlers
    /\ opts = [token |-> "page-token", verify |-> FALSE, appSecret |-> "",
               verifyToken |-> ""]
    /\ req = NoRequest
    /\ pc = "idle"
    /\ pos = NoPos
    /\ ranged = <<>>
    /\ resp = NoResponse
    /\ response = <<>>
    /\ calls = <<>>
    /\ ran = <<>>
    /\ heap = <<>>
    /\ \E m \in {Nil, Ptr(Message)}, d \in {Nil, Ptr(Delivery)}, rd \in {Nil, Ptr(Read)},
          pb \in {Nil, Ptr(PostBack)}, oi \in {Nil, Ptr(OptIn)},
          rf \in {Nil, Ptr(ReferralMessage)}, al \in {Nil, Ptr(AccountLinking)} :
        cInfo = MessageInfo(Sender(111), Recipient(222), 1999, m, d, rd, pb, oi, rf, al)
    /\ cAction = ""
    /\ vSecret = ""
    /\ vHeader = <<>>
    /\ vBody = MalformedBody
    /\ vResult = ""
    /\ NoStamp
    /\ NoRace
    /\ NoMore

Classify ==
    /\ cAction = ""
    /\ cAction' = classify(cInfo)
    /\ UNCHANGED <<serverVars, cInfo, verifyVars, timeVars, moreVars, raceVars>>

NextClassify == Classify

SpecClassify == InitClassify /\ [][NextClassify]_vars

---------------------------------------------------------------------------
(* checkIntegrity on its own, over secrets, headers and bodies *)

HeaderChars == {"0", "a", "A", "b", "B", "="}

Encodings ==
    { <<>>, <<"s", "h", "a", "1">>, <<"S", "H", "A", "1">>,
      <<"s", "h", "a", "2", "5", "6">> }

(* An encoding alone, or an encoding, "=" and up to DigestLen + 1 characters. *)
SignatureHeaders ==
    Encodings \cup
    { e \o <<"=">> \o d : e \in Encodings, d \in SeqsUpTo(HeaderChars, DigestLen + 1) }

SignedBodies ==
    { MalformedBody, JSONBody("page", <<>>), JSONBody("page", <<Entry(<<>>)>>) }

InitVerify ==
    /\ handlers = NoHandlers
    /\ opts = [token |-> "page-token", verify |-> TRUE, appSecret |-> "",
               verifyToken |-> ""]
    /\ req = NoRequest
    /\ pc = "idle"
    /\ pos = NoPos
    /\ ranged = <<>>
    /\ resp = NoResponse
    /\ response = <<>>
    /\ calls = <<>>
    /\ ran = <<>>
    /\ heap = <<>>
    /\ cInfo = MessageInfo(Sender(0), Recipient(0), 0, Nil, Nil, Nil, Nil, Nil, Nil, Nil)
    /\ cAction = ""
    /\ vSecret \in {"", "k1", "k2"}
    /\ vHeader \in SignatureHeaders
    /\ vBody \in SignedBodies
    /\ vResult = ""
    /\ NoStamp
    /\ NoRace
    /\ NoMore

CheckIntegrity ==
    /\ vResult = ""
    /\ vResult' = checkIntegrity(vSecret, vHeader, vBody)
    /\ UNCHANGED <<serverVars, classifyVars, vSecret, vHeader, vBody, timeVars, moreVars, raceVars>>

NextVerify == CheckIntegrity

SpecVerify == InitVerify /\ [][NextVerify]_vars

---------------------------------------------------------------------------
(* The conversion of an event's timestamp on its own, over timestamps *)

(* The server at rest, and no call of classify or checkIntegrity looked at. *)
ServerIdle ==
    /\ handlers = NoHandlers
    /\ opts = [token |-> "page-token", verify |-> FALSE, appSecret |-> "",
               verifyToken |-> ""]
    /\ req = NoRequest
    /\ pc = "idle"
    /\ pos = NoPos
    /\ ranged = <<>>
    /\ resp = NoResponse
    /\ response = <<>>
    /\ calls = <<>>
    /\ ran = <<>>
    /\ heap = <<>>

NoClassify ==
    /\ cInfo = MessageInfo(Sender(0), Recipient(0), 0, Nil, Nil, Nil, Nil, Nil, Nil, Nil)
    /\ cAction = ""

NoVerify ==
    /\ vSecret = ""
    /\ vHeader = <<>>
    /\ vBody = MalformedBody
    /\ vResult = ""

(* Timestamps run from -MaxStamp to MaxStamp. *)
MaxStamp == 2100

Timestamps == (-MaxStamp)..MaxStamp

InitTime ==
    /\ ServerIdle
    /\ NoClassify
    /\ NoVerify
    /\ \E t \in Timestamps :
        tInfo = MessageInfo(Sender(111), Recipient(222), t, Ptr(Message),
                            Nil, Nil, Nil, Nil, Nil, Nil)
    /\ tTime = ZeroTime
    /\ NoRace
    /\ NoMore

(* message := *info.Message; ...; message.Time = time.Unix(.., 0) *)
Stamp ==
    /\ tTime = ZeroTime
    /\ tInfo.Message # Nil
    /\ tTime' = Stamped(Deref(tInfo.Message), tInfo).Time
    /\ UNCHANGED <<serverVars, classifyVars, verifyVars, tInfo, raceVars, moreVars>>

NextTime == Stamp

SpecTime == InitTime /\ [][NextTime]_vars

---------------------------------------------------------------------------
(* A registration method called by one goroutine while another goroutine    *)
(* is in dispatch's range loop over the same slice. Neither takes a lock or *)
(* uses an atomic: the stores of the append and the loads of the range are  *)
(* unordered, and each word is stored and loaded on its own.                *)

(* The slice holds up to MaxRegistered handlers before the registration. *)
MaxRegistered == 3

(* The capacity of a slice grown from nil by n appends of one element:      *)
(* append doubles a full small slice, so 0, 1, 2, 4, 4, 8, ...              *)
RECURSIVE CapAfter(_)
CapAfter(n) ==
    IF n = 0 THEN 0
    ELSE LET c == CapAfter(n - 1) IN
         IF n <= c THEN c ELSE IF c = 0 THEN 1 ELSE 2 * c

(* A fresh backing array of c slots: the zero value of a func is nil. *)
ZeroArray(c) == [k \in 1..c |-> "nil"]

(* What a load that is no handler function gives: the nil of a slot not yet *)
(* stored, whatever lies behind the end of an array, or a fault on the nil  *)
(* array.                                                                   *)
NotAHandler == {"nil", "garbage", "fault"}

InitRace ==
    /\ ServerIdle
    /\ NoClassify
    /\ NoVerify
    /\ NoStamp
    /\ NoMore
    /\ \E slice \in DOMAIN NoHandlers, n \in 0..MaxRegistered :
       \E g \in HandlersOfSlice[slice], f \in HandlersOfSlice[slice] :
         LET before == [k \in 1..n |-> g] IN
         /\ mem = IF n = 0 THEN <<>> ELSE <<before \o ZeroArray(CapAfter(n) - n)>>
         /\ hdr = [ptr |-> IF n = 0 THEN 0 ELSE 1, len |-> n, cap |-> CapAfter(n)]
         /\ writer = [pc |-> "start", slice |-> slice, f |-> f, before |-> before,
                      new |-> NilSlice, slots |-> {}, words |-> {}]
         /\ reader = [pc |-> "loading", loaded |-> {}, ptr |-> 0, len |-> 0,
                      i |-> 0, seen |-> <<>>]

(* append(m.xHandlers, f): with room in the backing array the element is    *)
(* stored in place and the length grows; without, a new array of the next   *)
(* capacity is allocated, to be filled and then published in the header.    *)
AppendBegin ==
    /\ writer.pc = "start"
    /\ IF hdr.len < hdr.cap
       THEN /\ mem' = mem
            /\ writer' = [writer EXCEPT !.pc = "storing",
                             !.new = [hdr EXCEPT !.len = hdr.len + 1],
                             !.slots = {hdr.len + 1},
                             !.words = {"len"}]
       ELSE /\ mem' = Append(mem, ZeroArray(CapAfter(hdr.len + 1)))
            /\ writer' = [writer EXCEPT !.pc = "storing",
                             !.new = [ptr |-> Len(mem) + 1, len |-> hdr.len + 1,
                                      cap |-> CapAfter(hdr.len + 1)],
                             !.slots = 1..(hdr.len + 1),
                             !.words = {"ptr", "len", "cap"}]
    /\ UNCHANGED <<serverVars, classifyVars, verifyVars, timeVars, moreVars, hdr, reader>>

(* One of the append's stores into the backing array becomes visible. *)
StoreSlot ==
    /\ writer.pc = "storing"
    /\ \E k \in writer.slots :
        /\ mem' = [mem EXCEPT ![writer.new.ptr][k] = (writer.before \o <<writer.f>>)[k]]
        /\ writer' = [writer EXCEPT !.slots = @ \ {k}]
    /\ UNCHANGED <<serverVars, classifyVars, verifyVars, timeVars, moreVars, hdr, reader>>

(* One word of the assignment m.xHandlers = ... becomes visible. *)
StoreWord ==
    /\ writer.pc = "storing"
    /\ \E w \in writer.words :
        /\ hdr' = [hdr EXCEPT ![w] = writer.new[w]]
        /\ writer' = [writer EXCEPT !.words = @ \ {w}]
    /\ UNCHANGED <<serverVars, classifyVars, verifyVars, timeVars, moreVars, mem, reader>>

(* The registration method has returned and all its stores are visible. *)
AppendEnd ==
    /\ writer.pc = "storing"
    /\ writer.slots = {}
    /\ writer.words = {}
    /\ writer' = [writer EXCEPT !.pc = "done"]
    /\ UNCHANGED <<serverVars, classifyVars, verifyVars, timeVars, moreVars, mem, hdr, reader>>

(* for _, f := range m.xHandlers evaluates the slice once: it loads the     *)
(* pointer and the length words of the header.                              *)
LoadWord ==
    /\ reader.pc = "loading"
    /\ \E w \in {"ptr", "len"} \ reader.loaded :
        reader' = [reader EXCEPT ![w] = hdr[w],
                       !.loaded = @ \cup {w},
                       !.pc = IF reader.loaded \cup {w} = {"ptr", "len"}
                              THEN "ranging" ELSE "loading"]
    /\ UNCHANGED <<serverVars, classifyVars, verifyVars, timeVars, moreVars, mem, hdr, writer>>

(* The element the range loop loads at index i of the array it holds. *)
LoadSlot(i) ==
    IF reader.ptr = 0 THEN "fault"
    ELSE IF i > Len(mem[reader.ptr]) THEN "garbage"
    ELSE mem[reader.ptr][i]

(* One iteration of the range loop: load f and call it. Calling what is no  *)
(* handler function ends the goroutine.                                     *)
RangeNext ==
    /\ reader.pc = "ranging"
    /\ reader.i < reader.len
    /\ reader' = [reader EXCEPT !.i = reader.i + 1,
                      !.seen = Append(@, LoadSlot(reader.i + 1)),
                      !.pc = IF LoadSlot(reader.i + 1) \in NotAHandler
                             THEN "crashed" ELSE "ranging"]
    /\ UNCHANGED <<serverVars, classifyVars, verifyVars, timeVars, moreVars, mem, hdr, writer>>

(* The range loop has visited the length it loaded. *)
RangeEnd ==
    /\ reader.pc = "ranging"
    /\ reader.i = reader.len
    /\ reader' = [reader EXCEPT !.pc = "done"]
    /\ UNCHANGED <<serverVars, classifyVars, verifyVars, timeVars, moreVars, mem, hdr, writer>>

NextRace ==
    \/ AppendBegin \/ StoreSlot \/ StoreWord \/ AppendEnd
    \/ LoadWord \/ RangeNext \/ RangeEnd

SpecRace == InitRace /\ [][NextRace]_vars

---------------------------------------------------------------------------
(* classify and the switch of dispatch on a single event, over every        *)
(* combination of nil and non-nil pointers                                  *)

(* The pointer that the case of the switch for action a dereferences. *)
SourceField(a, info) ==
    CASE a = TextAction -> info.Message
      [] a = DeliveryAction -> info.Delivery
      [] a = ReadAction -> info.Read
      [] a = PostBackAction -> info.PostBack
      [] a = OptInAction -> info.OptIn
      [] a = ReferralAction -> info.ReferralMessage
      [] a = AccountLinkingAction -> info.AccountLinking

InitPayload == InitClassify

(* The case of the switch for the action classify gave: the dereference of  *)
(* a nil pointer panics, of another gives the payload for the handlers.     *)
TakePayload ==
    /\ cAction \notin {"", UnknownAction}
    /\ cArg = NoPayload
    /\ cArg' = IF SourceField(cAction, cInfo) = Nil
               THEN [fault |-> TRUE, payload |-> <<>>]
               ELSE [fault |-> FALSE, payload |-> <<Argument(cAction, cInfo)>>]
    /\ UNCHANGED <<serverVars, classifyVars, verifyVars, timeVars, raceVars,
                   bodyVars, first, serving>>

NextPayload == Classify \/ TakePayload

SpecPayload == InitPayload /\ [][NextPayload]_vars

---------------------------------------------------------------------------
(* The request body as handle and checkIntegrity read it: r.Body is a       *)
(* stream that is consumed by reading                                       *)

(* A body is at most MaxBody bytes long. *)
MaxBody == 3

Bytes == {"{", "}", "x"}

(* json.Unmarshal gives an error for bytes that are not a JSON value: here  *)
(* the JSON values are the bodies that open and close a brace.              *)
IsJSON(body) == Len(body) >= 2 /\ body[1] = "{" /\ body[Len(body)] = "}"

(* ioutil.ReadAll(r.Body): the bytes of the stream from its offset to the   *)
(* end, and the stream it leaves, at its end.                               *)
ReadAll(stream) == SubSeq(stream.data, stream.off + 1, Len(stream.data))
Drained(stream) == [stream EXCEPT !.off = Len(stream.data)]

(* bytes.NewBuffer(body) under ioutil.NopCloser: a stream over body. *)
NewBuffer(body) == [data |-> body, off |-> 0]

(* r.Body left as the reading left it. *)
NoReplay(stream, body) == stream

(* r.Body = ioutil.NopCloser(bytes.NewBuffer(body)) *)
Replay(stream, body) == NewBuffer(body)

BodyHeaders == {<<>>, <<"s", "h", "a", "1", "=", "0", "a">>}

InitBody ==
    /\ handlers = NoHandlers
    /\ opts \in Options
    /\ req = NoRequest
    /\ pc = "idle"
    /\ pos = NoPos
    /\ ranged = <<>>
    /\ resp = NoResponse
    /\ response = <<>>
    /\ calls = <<>>
    /\ ran = <<>>
    /\ heap = <<>>
    /\ NoClassify
    /\ vSecret = ""
    /\ vHeader \in BodyHeaders
    /\ vBody \in SeqsUpTo(Bytes, MaxBody)
    /\ vResult = ""
    /\ NoStamp
    /\ NoRace
    /\ cArg = NoPayload
    /\ rBody = NewBuffer(vBody)
    /\ decoded = <<>>
    /\ digested = <<>>
    /\ first = [pc |-> "none"]
    /\ serving = <<>>

(* handle reads the body, puts a copy back and decodes what it read. *)
HandleBody ==
    /\ decoded = <<>>
    /\ LET body == ReadAll(rBody) IN
        /\ rBody' = Replay(Drained(rBody), body)
        /\ decoded' = <<body>>
    /\ UNCHANGED <<serverVars, classifyVars, verifyVars, timeVars, raceVars,
                   cArg, digested, first, serving>>

(* checkIntegrity, called when the body decoded and m.verify is set, reads  *)
(* the body after its tests of the secret and of the header, puts a copy    *)
(* back and has checkSHA1 digest what it read.                              *)
CheckBody ==
    /\ decoded # <<>>
    /\ digested = <<>>
    /\ IsJSON(decoded[1])
    /\ opts.verify
    /\ opts.appSecret # ""
    /\ Len(SplitN2(vHeader, "=")) # 1
    /\ LET body == ReadAll(rBody) IN
        /\ rBody' = Replay(Drained(rBody), body)
        /\ digested' = <<body>>
    /\ UNCHANGED <<serverVars, classifyVars, verifyVars, timeVars, raceVars,
                   cArg, decoded, first, serving>>

NextBody == HandleBody \/ CheckBody

SpecBody == InitBody /\ [][NextBody]_vars

---------------------------------------------------------------------------
(* The same request served twice by a Messenger whose registry is filled    *)

(* Registries as the registration methods leave them. *)
Registries ==
    { NoHandlers,
      [NoHandlers EXCEPT !.messageHandlers = <<"onMessage1">>],
      [NoHandlers EXCEPT !.messageHandlers = <<"onMessage2", "onMessage1">>],
      [NoHandlers EXCEPT !.messageHandlers = <<"onMessage1">>,
                         !.deliveryHandlers = <<"onDelivery1">>],
      [NoHandlers EXCEPT !.deliveryHandlers = <<"onDelivery2">>,
                         !.readHandlers = <<"onRead">>] }

(* The Messenger has its handlers and the server calls m.handle with a      *)
(* request; first keeps the registry and the options as they are then.      *)
InitTwice ==
    /\ handlers \in Registries
    /\ opts \in Options
    /\ req \in Requests
    /\ pc = "handle"
    /\ pos = NoPos
    /\ ranged = <<>>
    /\ resp = NoResponse
    /\ response = <<>>
    /\ calls = <<>>
    /\ ran = <<>>
    /\ heap = <<>>
    /\ NoClassify
    /\ NoVerify
    /\ NoStamp
    /\ NoRace
    /\ cArg = NoPayload
    /\ rBody = NoStream
    /\ decoded = <<>>
    /\ digested = <<>>
    /\ first = [pc |-> "first", handlers |-> handlers, opts |-> opts]
    /\ serving = <<>>

(* handle has returned or was unwound, and the server calls m.handle with   *)
(* the same request again; first keeps what the first call did.             *)
Redeliver ==
    /\ pc \in {"done", "aborted"}
    /\ first.pc = "first"
    /\ first' = [pc |-> pc, handlers |-> first.handlers, opts |-> first.opts,
                 calls |-> calls, response |-> response, ran |-> ran]
    /\ pc' = "handle"
    /\ pos' = NoPos
    /\ ranged' = <<>>
    /\ resp' = NoResponse
    /\ response' = <<>>
    /\ calls' = <<>>
    /\ ran' = <<>>
    /\ heap' = <<>>
    /\ UNCHANGED <<handlers, opts, req, classifyVars, verifyVars, timeVars, raceVars,
                   cArg, bodyVars, serving>>

NextTwice == Handle \/ DispatchEvent \/ Invoke \/ Acknowledge \/ Redeliver

SpecTwice == InitTwice /\ [][NextTwice]_vars

---------------------------------------------------------------------------
(* Two requests served at once: the HTTP server calls m.handle for each on  *)
(* a goroutine of its own, and the steps of the two interleave. The         *)
(* Messenger (handlers, opts) is shared; req, rec, a, resp and the loop     *)
(* variables are parameters and locals, one set per call of handle.         *)

PairRequests ==
    { [Method |-> "POST", Form |-> NoForm,
       Header |-> Signed(JSONBody("page", <<Entry(<<TextEvent, DeliveryEvent>>)>>)),
       Body |-> JSONBody("page", <<Entry(<<TextEvent, DeliveryEvent>>)>>)],
      [Method |-> "POST", Form |-> NoForm,
       Header |-> Signed(JSONBody("page", <<Entry(<<DeliveryEvent>>), Entry(<<TextEvent>>)>>)),
       Body |-> JSONBody("page", <<Entry(<<DeliveryEvent>>), Entry(<<TextEvent>>)>>)],
      [Method |-> "POST", Form |-> NoForm, Header |-> <<>>,
       Body |-> JSONBody("page", <<Entry(<<TextEvent>>)>>)],
      [Method |-> "GET",
       Form |-> [key \in FormKeys |-> IF key = "hub.verify_token" THEN Ptr("tok") ELSE Ptr("c1")],
       Header |-> <<>>, Body |-> MalformedBody] }

Goroutines == {1, 2}

(* The frame of a call of handle that was given request r. *)
Frame(r) ==
    [req |-> r, pc |-> "handle", pos |-> NoPos, ranged |-> <<>>, resp |-> NoResponse,
     response |-> <<>>, calls |-> <<>>]

(* The variable resp kept in one place for all the calls of dispatch. *)
RespSlotShared(i) == 1

(* resp is a local of dispatch: goroutine i has its own, in its frame. *)
RespSlot(i) == i

InitPair ==
    /\ handlers \in Registries
    /\ opts \in Options
    /\ req = NoRequest
    /\ pc = "idle"
    /\ pos = NoPos
    /\ ranged = <<>>
    /\ resp = NoResponse
    /\ response = <<>>
    /\ calls = <<>>
    /\ ran = <<>>
    /\ heap = <<>>
    /\ NoClassify
    /\ NoVerify
    /\ NoStamp
    /\ NoRace
    /\ cArg = NoPayload
    /\ rBody = NoStream
    /\ decoded = <<>>
    /\ digested = <<>>
    /\ first = [pc |-> "none"]
    /\ \E r1 \in PairRequests, r2 \in PairRequests : serving = <<Frame(r1), Frame(r2)>>

pairFrame == <<serverVars, classifyVars, verifyVars, timeVars, raceVars, cArg, bodyVars, first>>

(* The loop position and the place in the code after the event at index n   *)
(* of the order of envelope r.                                              *)
AfterIn(f, r, n) ==
    [f EXCEPT !.pos = [n |-> n + 1, k |-> 0, a |-> UnknownAction],
              !.pc = IF n + 1 > Len(Order(r)) THEN "ack" ELSE "dispatch"]

(* Goroutine i: handle, up to its call of dispatch. *)
GHandle(i) ==
    /\ serving[i].pc = "handle"
    /\ LET f == serving[i]
           path == handlePath(opts, f.req)
       IN serving' = [serving EXCEPT ![i] =
            CASE path = "verify" ->
                   [f EXCEPT !.response = Append(@, verifyHandler(opts.verifyToken, f.req)),
                             !.pc = "done"]
              [] path = "not ok" ->
                   [f EXCEPT !.response = Append(@, Fprintln(NotOk)), !.pc = "done"]
              [] path = "dispatch" -> AfterIn(f, Unmarshal(f.req.Body).rec, 0)]
    /\ UNCHANGED pairFrame

(* Goroutine i: one iteration of the inner loop of dispatch, up to the      *)
(* first handler call.                                                      *)
GDispatchEvent(i) ==
    /\ serving[i].pc = "dispatch"
    /\ LET f == serving[i]
           r == Unmarshal(f.req.Body).rec
           info == EventAt(r, Order(r)[f.pos.n])
           a == classify(info)
       IN IF a = UnknownAction
          THEN serving' = [serving EXCEPT ![i] = AfterIn(f, r, f.pos.n)]
          ELSE serving' =
                 [serving EXCEPT
                    ![i] = IF HandlersFor(handlers, a) = <<>>
                           THEN [AfterIn(f, r, f.pos.n) EXCEPT !.ranged = <<>>]
                           ELSE [f EXCEPT !.ranged = HandlersFor(handlers, a),
                                          !.pos = [n |-> f.pos.n, k |-> 1, a |-> a],
                                          !.pc = "invoke"],
                    ![RespSlot(i)].resp = NewResponse(opts, info)]
    /\ UNCHANGED pairFrame

(* Goroutine i: one handler call. A panic unwinds the goroutine's own       *)
(* handle and dispatch.                                                     *)
GInvoke(i) ==
    /\ serving[i].pc = "invoke"
    /\ LET f == serving[i]
           r == Unmarshal(f.req.Body).rec
           p == Order(r)[f.pos.n]
           info == EventAt(r, p)
       IN \E outcome \in {"returned", "panicked"} :
            LET called == [f EXCEPT !.calls = Append(@,
                              [i |-> p.i, j |-> p.j, action |-> f.pos.a,
                               handler |-> f.ranged[f.pos.k], k |-> f.pos.k,
                               arg |-> Argument(f.pos.a, info),
                               resp |-> serving[RespSlot(i)].resp, outcome |-> outcome])]
            IN serving' = [serving EXCEPT ![i] =
                 IF outcome = "panicked" THEN [called EXCEPT !.pc = "aborted"]
                 ELSE IF f.pos.k < Len(f.ranged)
                      THEN [called EXCEPT !.pos.k = f.pos.k + 1]
                      ELSE AfterIn(called, r, f.pos.n)]
    /\ UNCHANGED pairFrame

(* Goroutine i: dispatch has returned and handle writes the acknowledgment. *)
GAcknowledge(i) ==
    /\ serving[i].pc = "ack"
    /\ serving' = [serving EXCEPT ![i] =
                     [@ EXCEPT !.response = Append(@, Fprintln(Ok)), !.pc = "done"]]
    /\ UNCHANGED pairFrame

NextPair ==
    \E i \in Goroutines : GHandle(i) \/ GDispatchEvent(i) \/ GInvoke(i) \/ GAcknowledge(i)

SpecPair == InitPair /\ [][NextPair]_vars

---------------------------------------------------------------------------
(* Properties of classify (SpecClassify) *)

(* The variants in the order of precedence, and the kind of each. *)
Precedence ==
    <<"Message", "Delivery", "Read", "PostBack", "OptIn", "ReferralMessage",
      "AccountLinking">>

KindOfVariant ==
    <<TextAction, DeliveryAction, ReadAction, PostBackAction, OptInAction,
      ReferralAction, AccountLinkingAction>>

Populated(info) == {n \in 1..Len(Precedence) : info[Precedence[n]] # Nil}

FirstPopulated(info) ==
    CHOOSE n \in Populated(info) : \A q \in Populated(info) : n <= q

(* C1: whenever at least one variant is populated, classify returns the     *)
(* kind of the first populated variant in the order TextMessage,            *)
(* DeliveryReceipt, ReadReceipt, PostBack, OptIn, Referral,                 *)
(* AccountLinkingChange, whatever else is populated; so an event with both  *)
(* a TextMessage and a DeliveryReceipt classifies as TextMessage.           *)
C1_FirstPopulatedWins ==
    (cAction # "" /\ Populated(cInfo) # {}) =>
        /\ cAction = KindOfVariant[FirstPopulated(cInfo)]
        /\ (cInfo.Message # Nil /\ cInfo.Delivery # Nil => cAction = TextAction)

C1_Witness ==
    /\ cAction = TextAction
    /\ cInfo.Message # Nil
    /\ cInfo.Delivery # Nil

(* C2: classify returns one of the eight tags, and it returns Unknown       *)
(* exactly when none of message, delivery, read, postback, optin, referral  *)
(* and account_linking is populated.                                        *)
C2_UnknownIffNonePopulated ==
    cAction # "" =>
        /\ cAction \in Kinds \cup {UnknownAction}
        /\ cAction = UnknownAction <=>
              /\ cInfo.Message = Nil /\ cInfo.Delivery = Nil /\ cInfo.Read = Nil
              /\ cInfo.PostBack = Nil /\ cInfo.OptIn = Nil
              /\ cInfo.ReferralMessage = Nil /\ cInfo.AccountLinking = Nil

C2_Witness ==
    /\ cAction = UnknownAction
    /\ Populated(cInfo) = {}

---------------------------------------------------------------------------
(* Properties of classify with the switch of dispatch (SpecPayload) *)

(* The variant field that holds the payload of kind a. *)
VariantOf(a) == Precedence[CHOOSE n \in 1..Len(KindOfVariant) : KindOfVariant[n] = a]

(* C27: for every combination of populated variants, the switch of dispatch *)
(* never dereferences a nil pointer: the payload for the handlers of the    *)
(* kind classify gave is taken from the variant of that kind, which is      *)
(* populated in the event, and holds what that variant holds.               *)
C27_PayloadFromPopulatedVariant ==
    cArg # NoPayload =>
        /\ ~cArg.fault
        /\ cAction \in Kinds
        /\ cInfo[VariantOf(cAction)] # Nil
        /\ LET v == Deref(cInfo[VariantOf(cAction)])
               payload == cArg.payload[1]
           IN /\ DOMAIN payload = DOMAIN v
              /\ \A key \in DOMAIN v \ {"Sender", "Recipient", "Time"} : payload[key] = v[key]

C27_Witness ==
    /\ cArg.payload = <<Delivery>>
    /\ cAction = DeliveryAction
    /\ cInfo.Message = Nil
    /\ cInfo.Read # Nil
    /\ cInfo.AccountLinking # Nil

---------------------------------------------------------------------------
(* Properties of the reading of the body (SpecBody) *)

(* C29: the decoder is given all the bytes of the request body, the digest  *)
(* is computed over exactly the bytes the decoder was given, and after each *)
(* of the two has read, the body of the request still reads in full.        *)
C29_DigestOverDecodedBytes ==
    /\ decoded # <<>> => decoded[1] = vBody /\ ReadAll(rBody) = vBody
    /\ digested # <<>> => digested = decoded /\ digested[1] = vBody

C29_Witness ==
    /\ digested # <<>>
    /\ Len(digested[1]) >= 2
    /\ decoded = digested

---------------------------------------------------------------------------
(* Properties of a request served twice (SpecTwice) *)

(* The call without what the handler did with it. *)
Invocation(c) == [x \in DOMAIN c \ {"outcome"} |-> c[x]]

(* The positions that the calls of both servings have. *)
Common == 1..(IF Len(calls) <= Len(first.calls) THEN Len(calls) ELSE Len(first.calls))

(* C22: serving a request leaves the registry and the options (token,       *)
(* secret, verify flag) as they were, and when the same request is served   *)
(* again, its calls of handlers are those of the first serving, call by     *)
(* call: same event, same handler, same payload, same reply target. When    *)
(* the handlers also ended the same way both times, the two servings made   *)
(* the same calls in all and wrote the same response.                       *)
C22_DispatchIsStateless ==
    /\ handlers = first.handlers
    /\ opts = first.opts
    /\ first.pc # "first" =>
        /\ \A p \in Common : Invocation(calls[p]) = Invocation(first.calls[p])
        /\ (pc \in {"done", "aborted"}
            /\ \A p \in Common : calls[p].outcome = first.calls[p].outcome) =>
              /\ calls = first.calls
              /\ response = first.response
              /\ ran = first.ran
              /\ pc = first.pc

C22_Witness ==
    /\ first.pc = "done"
    /\ pc = "done"
    /\ Len(calls) >= 2
    /\ calls = first.calls
    /\ response = first.response

---------------------------------------------------------------------------
(* Properties of checkIntegrity (SpecVerify) *)

HasSHA1Prefix(h) == Len(h) >= Len(SHA1Prefix) /\ SubSeq(h, 1, Len(SHA1Prefix)) = SHA1Prefix

DigestOf(h) == SubSeq(h, Len(SHA1Prefix) + 1, Len(h))

SameLetter(c, d) == c = d \/ {c, d} = {"a", "A"} \/ {c, d} = {"b", "B"}

EqualFold(x, y) == Len(x) = Len(y) /\ \A n \in 1..Len(x) : SameLetter(x[n], y[n])

(* C7: with a non-empty secret and a header sha1=<digest>, the check        *)
(* succeeds exactly when <digest> equals, ignoring letter case, the         *)
(* lowercase hex HMAC-SHA1 of the body under the secret; every other        *)
(* digest fails as an invalid signature.                                    *)
C7_DigestMatchesIgnoringCase ==
    (vResult # "" /\ vSecret # "" /\ HasSHA1Prefix(vHeader)) =>
        IF EqualFold(DigestOf(vHeader), hexHmacSha1(vBody, vSecret))
        THEN vResult = NoError
        ELSE vResult = ErrInvalidSignature

C7_Witness ==
    /\ vResult = NoError
    /\ vSecret # ""
    /\ HasSHA1Prefix(vHeader)
    /\ DigestOf(vHeader) # hexHmacSha1(vBody, vSecret)

(* The number of "=" in header h. *)
CountEquals(h) == Cardinality({n \in 1..Len(h) : h[n] = "="})

(* The encoding token of a header with an "=": what stands before the first. *)
EncodingToken(h) == SubSeq(h, 1, Index(h, "=") - 1)

(* The token spells sha1, in letters of either case. *)
NamesSHA1(e) ==
    /\ Len(e) = 4
    /\ e[1] \in {"s", "S"} /\ e[2] \in {"h", "H"} /\ e[3] \in {"a", "A"} /\ e[4] = "1"

(* C11: the check reports the failure by its condition: the missing secret  *)
(* whenever no secret is configured, whatever the header; otherwise the     *)
(* missing header when the header is absent or empty; otherwise the         *)
(* unsupported encoding when the header has an encoding token that does not *)
(* name sha1 (sha256, say); none of these cases is reported as success.     *)
C11_FailureReasonByCondition ==
    vResult # "" =>
        /\ vSecret = "" => vResult = ErrMissingSecret
        /\ (vSecret # "" /\ vHeader = <<>>) => vResult = ErrMissingHeader
        /\ (vSecret # "" /\ CountEquals(vHeader) > 0 /\ ~NamesSHA1(EncodingToken(vHeader)))
              => vResult = ErrUnknownEncoding
        /\ (vSecret = "" \/ vHeader = <<>>
              \/ (CountEquals(vHeader) > 0 /\ ~NamesSHA1(EncodingToken(vHeader))))
              => vResult # NoError

C11_Witness ==
    /\ vResult = ErrMissingSecret
    /\ vSecret = ""
    /\ HasSHA1Prefix(vHeader)
    /\ DigestOf(vHeader) = hexHmacSha1(vBody, "k1")

(* C12: with a secret configured, the check fails as a malformed header for *)
(* every non-empty header that is not exactly one encoding, one "=" and one *)
(* digest: a header with no "=" and a header with more than one "=".        *)
C12_MalformedUnlessExactlyOnePair ==
    (vResult # "" /\ vSecret # "" /\ vHeader # <<>> /\ CountEquals(vHeader) # 1) =>
        vResult = ErrMalformedHeader

---------------------------------------------------------------------------
(* Properties of the timestamp conversion (SpecTime) *)

(* t / 1000 in whole seconds: q is t without its sub-second part. *)
IsWholeSeconds(q, t) ==
    IF t >= 0 THEN 1000 * q <= t /\ t < 1000 * (q + 1)
    ELSE 1000 * q >= t /\ t > 1000 * (q - 1)

(* C17: the time put into the payload is the event's timestamp in whole     *)
(* seconds, the integer quotient by 1000 with the sub-second part dropped,  *)
(* for every timestamp: 1999 gives second 1, as 1543095111999 gives         *)
(* 1543095111.                                                              *)
C17_TimeIsWholeSeconds ==
    tTime # ZeroTime =>
        /\ Len(tTime) = 1
        /\ IsWholeSeconds(tTime[1], tInfo.Timestamp)
        /\ tInfo.Timestamp = 1999 => tTime = Unix(1)
        /\ tInfo.Timestamp >= 0 => tTime = Unix(tInfo.Timestamp \div 1000)

C17_Witness ==
    /\ tInfo.Timestamp = 1999
    /\ tTime = Unix(1)

---------------------------------------------------------------------------
(* Properties of a registration racing with a dispatch (SpecRace) *)

(* C18: the list that dispatch's range loop observes while a registration   *)
(* of the same kind runs is the list before the append or the list after    *)
(* it: every element it loads is a registered handler, and a loop that has  *)
(* ended has seen one of the two lists.                                     *)
C18_DispatchSeesBeforeOrAfter ==
    /\ \A k \in 1..Len(reader.seen) : reader.seen[k] \notin NotAHandler
    /\ reader.pc \in {"done", "crashed"} =>
          reader.seen \in {writer.before, Append(writer.before, writer.f)}

---------------------------------------------------------------------------
(* Properties of handle and dispatch (Spec) *)

(* handle or the server's recovery from a panic has ended the request. *)
Ended == pc \in {"done", "aborted"}

(* The request is a delivery that decodes and, where verification is on,    *)
(* carries a valid signature.                                               *)
Accepted ==
    /\ req.Method = "POST"
    /\ ~Unmarshal(req.Body).err
    /\ opts.verify => checkIntegrity(opts.appSecret, req.Header, req.Body) = NoError

(* The positions of the envelope's events that classify as kind a. *)
EventsOfKind(a) ==
    {n \in 1..Len(Order(rec)) : classify(EventAt(rec, Order(rec)[n])) = a}

CallsOfKind(a) == {p \in 1..Len(calls) : calls[p].action = a}

(* The handlers called for the event at position (i, j), in call order. *)
CalledFor(i, j) ==
    LET at == SelectSeq(calls, LAMBDA c : c.i = i /\ c.j = j)
    IN [p \in 1..Len(at) |-> at[p].handler]

(* C3: when an accepted request has ended, the number of calls of handlers  *)
(* of each kind K is the number of handlers registered for K times the      *)
(* number of events of kind K in the envelope, and each call was given a    *)
(* Response addressed to the sender of its event.                           *)
C3_InvocationsAreHandlersTimesEvents ==
    (Ended /\ Accepted) =>
        /\ \A a \in Kinds :
             Cardinality(CallsOfKind(a))
                = Len(HandlersFor(handlers, a)) * Cardinality(EventsOfKind(a))
        /\ \A p \in 1..Len(calls) :
             calls[p].resp.to.ID
                = EventAt(rec, [i |-> calls[p].i, j |-> calls[p].j]).Sender.ID

(* C4: when an accepted request has ended, for every event that dispatch    *)
(* reached and classified as a kind K, the handlers called for it are the   *)
(* handlers registered for K, each once, in registration order.             *)
C4_HandlersRunInRegistrationOrder ==
    (Ended /\ Accepted) =>
        \A n \in 1..Len(Order(rec)) :
            LET p == Order(rec)[n]
                a == classify(EventAt(rec, p))
            IN (n <= pos.n /\ a # UnknownAction) =>
                   CalledFor(p.i, p.j) = HandlersFor(handlers, a)

(* C5: the calls of a request are made in envelope order: a call for an     *)
(* event is never made after a call for a later event of the same entry or  *)
(* for an event of a later entry.                                           *)
C5_CallsFollowEnvelopeOrder ==
    \A p, q \in 1..Len(calls) :
        p < q =>
            \/ calls[p].i < calls[q].i
            \/ calls[p].i = calls[q].i /\ calls[p].j <= calls[q].j

C5_Witness ==
    /\ pc = "done"
    /\ Len(calls) = 2
    /\ calls[1].i = 1
    /\ calls[2].i = 2

(* C6: when a request has ended, a handler call that panicked is followed   *)
(* by the call of the next handler registered for the same event, and by    *)
(* the calls for every later event that has handlers.                       *)
C6_FailedHandlerDoesNotStopDispatch ==
    Ended =>
        \A p \in 1..Len(calls) :
            calls[p].outcome = "panicked" =>
                /\ calls[p].k < Len(HandlersFor(handlers, calls[p].action)) =>
                      \E q \in 1..Len(calls) :
                          /\ q > p
                          /\ calls[q].i = calls[p].i /\ calls[q].j = calls[p].j
                          /\ calls[q].k = calls[p].k + 1
                /\ \A n \in 1..Len(Order(rec)) :
                      LET e == Order(rec)[n]
                          a == classify(EventAt(rec, e))
                      IN ( /\ e.i > calls[p].i \/ (e.i = calls[p].i /\ e.j > calls[p].j)
                           /\ a # UnknownAction
                           /\ HandlersFor(handlers, a) # <<>> ) =>
                             \E q \in 1..Len(calls) : calls[q].i = e.i /\ calls[q].j = e.j

(* C8: a delivery whose body does not decode, or whose signature check      *)
(* fails while verification is on, never gets a handler called, and is      *)
(* answered with the 'not ok' acknowledgment.                               *)
C8_RejectedRequestRunsNoHandler ==
    ( /\ req.Method = "POST"
      /\ \/ Unmarshal(req.Body).err
         \/ opts.verify /\ checkIntegrity(opts.appSecret, req.Header, req.Body) # NoError )
    => /\ calls = <<>>
       /\ pc \in {"handle", "done"}
       /\ pc = "done" => response = <<Fprintln(NotOk)>>

C8_Witness ==
    /\ pc = "done"
    /\ req.Method = "POST"
    /\ opts.verify
    /\ checkIntegrity(opts.appSecret, req.Header, req.Body) = ErrInvalidSignature
    /\ req.Body = JSONBody("page", <<Entry(<<TextEvent>>)>>)
    /\ handlers.messageHandlers # <<>>
    /\ calls = <<>>
    /\ response = <<Fprintln(NotOk)>>

(* The event that dispatch's loops stand at. *)
Current == EventAt(rec, Order(rec)[pos.n])

(* C13: an event classified as Unknown gets no handler called, and the step *)
(* that skips it goes on to the next event of the envelope, in the same     *)
(* entry or the next, or to the acknowledgment after the last event; when   *)
(* an accepted request is done, every event of a known kind, those after an *)
(* Unknown event included, has had the handlers of its kind called.         *)
C13_UnknownIsSkippedNotFatal ==
    /\ [](\A p \in 1..Len(calls) :
            classify(EventAt(rec, [i |-> calls[p].i, j |-> calls[p].j])) # UnknownAction)
    /\ [][(pc = "dispatch" /\ classify(Current) = UnknownAction) =>
            /\ calls' = calls
            /\ pos'.n = pos.n + 1
            /\ pc' = IF pos.n < Len(Order(rec)) THEN "dispatch" ELSE "ack"]_vars
    /\ []((pc = "done" /\ Accepted) =>
            \A n \in 1..Len(Order(rec)) :
                LET p == Order(rec)[n]
                    a == classify(EventAt(rec, p))
                IN IF a = UnknownAction THEN CalledFor(p.i, p.j) = <<>>
                   ELSE CalledFor(p.i, p.j) = HandlersFor(handlers, a))

C13_Witness ==
    /\ pc = "done"
    /\ rec.Entry = <<Entry(<<UnknownEvent, TextEvent>>)>>
    /\ handlers.messageHandlers # <<>>
    /\ Len(calls) = Len(handlers.messageHandlers)
    /\ calls[1].j = 2

(* The request is a POST of the envelope {"object":"page","entry":[]}. *)
EmptyEnvelope == req.Method = "POST" /\ req.Body = JSONBody("page", <<>>)

(* C14: the envelope with zero entries decodes without error; while it is   *)
(* served no handler is called and neither the registry, the options nor    *)
(* dispatch's Response change; and, where it passes verification, it is     *)
(* answered with the 'ok' acknowledgment.                                   *)
C14_EmptyEnvelopeIsAcknowledged ==
    /\ [](EmptyEnvelope =>
            /\ ~Unmarshal(req.Body).err
            /\ rec.Entry = <<>>
            /\ calls = <<>>
            /\ pc \in {"handle", "ack", "done"}
            /\ (pc = "done" /\ Accepted) => response = <<Fprintln(Ok)>>)
    /\ [][(EmptyEnvelope /\ req' = req) =>
            /\ handlers' = handlers
            /\ opts' = opts
            /\ resp' = resp
            /\ ranged' = ranged]_vars

C14_Witness ==
    /\ pc = "done"
    /\ EmptyEnvelope
    /\ Registered(handlers) > 0
    /\ calls = <<>>
    /\ response = <<Fprintln(Ok)>>

(* The handler calls that dispatching the entries of r makes with registry  *)
(* h when no handler panics: for each event in envelope order, the handlers *)
(* of its kind in registration order.                                       *)
RECURSIVE ExpectedFrom(_, _, _)
ExpectedFrom(r, h, n) ==
    IF n > Len(Order(r)) THEN <<>>
    ELSE LET p == Order(r)[n]
             a == classify(EventAt(r, p))
             hs == IF a = UnknownAction THEN <<>> ELSE HandlersFor(h, a)
         IN [k \in 1..Len(hs) |-> [i |-> p.i, j |-> p.j, handler |-> hs[k]]]
            \o ExpectedFrom(r, h, n + 1)

(* The calls made so far, as (entry, event, handler). *)
Made == [p \in 1..Len(calls) |-> [i |-> calls[p].i, j |-> calls[p].j, handler |-> calls[p].handler]]

IsPrefix(x, y) == Len(x) <= Len(y) /\ SubSeq(y, 1, Len(x)) = x

(* The envelope of the request, with "page" for its object. *)
AsPage == [Object |-> "page", Entry |-> rec.Entry]

(* C15: an accepted envelope whose object is not "page" is served as the    *)
(* same envelope with object "page" is: the calls made are the calls that   *)
(* the entries and the registry determine, in that order, stopping short    *)
(* only at a call that panicked, and a request that is done is answered     *)
(* with the 'ok' acknowledgment.                                            *)
C15_OtherObjectIsServedAsPage ==
    (Accepted /\ pc \in {"dispatch", "invoke", "ack", "done", "aborted"}) =>
        /\ IsPrefix(Made, ExpectedFrom(AsPage, handlers, 1))
        /\ pc = "aborted" => calls[Len(calls)].outcome = "panicked"
        /\ pc \in {"ack", "done"} => Made = ExpectedFrom(AsPage, handlers, 1)
        /\ pc = "done" => response = <<Fprintln(Ok)>>

C15_Witness ==
    /\ pc = "done"
    /\ req.Body = JSONBody("user", <<Entry(<<TextEvent>>)>>)
    /\ Len(calls) = 2
    /\ response = <<Fprintln(Ok)>>

(* The payload of call c carries the sender, the recipient and the time in  *)
(* whole seconds of the event it was called for.                            *)
CarriesEvent(c) ==
    LET info == EventAt(rec, [i |-> c.i, j |-> c.j]) IN
    /\ {"Sender", "Recipient", "Time"} \subseteq DOMAIN c.arg
    /\ c.arg.Sender = info.Sender
    /\ c.arg.Recipient = info.Recipient
    /\ Len(c.arg.Time) = 1
    /\ IsWholeSeconds(c.arg.Time[1], info.Timestamp)

(* C16 as claimed: for every call of a handler of every kind, the payload   *)
(* carries the event's sender and recipient and its time in whole seconds.  *)
C16_EveryPayloadCarriesTheEvent ==
    \A p \in 1..Len(calls) : CarriesEvent(calls[p])

(* The payload as json.Unmarshal left it, for the two receipt kinds. *)
Decoded(c) ==
    LET info == EventAt(rec, [i |-> c.i, j |-> c.j]) IN
    IF c.action = DeliveryAction THEN Deref(info.Delivery) ELSE Deref(info.Read)

(* C16 as amended: the payload of a text, postback, opt-in, referral or     *)
(* account linking handler carries the event's sender and recipient and its *)
(* time in whole seconds; the payload of a delivery or read handler is the  *)
(* receipt as decoded, which has no sender, recipient or time.              *)
C16_ReceiptsCarryNoSender ==
    \A p \in 1..Len(calls) :
        IF calls[p].action \in {DeliveryAction, ReadAction}
        THEN /\ calls[p].arg = Decoded(calls[p])
             /\ DOMAIN calls[p].arg \cap {"Sender", "Recipient", "Time"} = {}
        ELSE CarriesEvent(calls[p])

C16_Witness ==
    /\ Len(calls) = 2
    /\ calls[1].action = TextAction
    /\ calls[1].arg.Sender = Sender(111)
    /\ calls[1].arg.Recipient = Recipient(222)
    /\ calls[1].arg.Time = Unix(1)
    /\ calls[2].action = DeliveryAction
    /\ calls[2].arg = Delivery

(* C19: the registry changes only by one handler being appended to the end  *)
(* of one kind's list, the entries before it and the lists of the other     *)
(* kinds staying as they are; nothing is deduplicated: the k-th call for an *)
(* event is of the k-th entry of its kind's list, so that a handler         *)
(* registered twice is called twice for each event of the kind in a request *)
(* that is done.                                                            *)
C19_RegistrationOnlyAppends ==
    /\ [][handlers' # handlers =>
            \E slice \in DOMAIN handlers : \E f \in HandlersOfSlice[slice] :
                handlers' = [handlers EXCEPT ![slice] = Append(@, f)]]_vars
    /\ [](\A p \in 1..Len(calls) :
            /\ calls[p].k <= Len(HandlersFor(handlers, calls[p].action))
            /\ calls[p].handler = HandlersFor(handlers, calls[p].action)[calls[p].k]
            /\ \/ calls[p].k = 1
               \/ /\ p > 1
                  /\ calls[p - 1].i = calls[p].i /\ calls[p - 1].j = calls[p].j
                  /\ calls[p - 1].k = calls[p].k - 1)
    /\ []((pc = "done" /\ Accepted) =>
            \A n \in 1..Len(Order(rec)) :
                LET p == Order(rec)[n]
                    a == classify(EventAt(rec, p))
                IN a # UnknownAction => CalledFor(p.i, p.j) = HandlersFor(handlers, a))

C19_Witness ==
    /\ pc = "done"
    /\ handlers.messageHandlers = <<"onMessage1", "onMessage1">>
    /\ rec.Entry = <<Entry(<<TextEvent>>)>>
    /\ Len(calls) = 2
    /\ calls[1].handler = "onMessage1"
    /\ calls[2].handler = "onMessage1"

(* C20: with verification on, handle checks the signature of a POST before  *)
(* it decodes the body: the first call it makes is checkIntegrity, and a    *)
(* request whose signature check fails is answered without json.Unmarshal   *)
(* having been called.                                                      *)
C20_VerifiedBeforeDecoded ==
    (pc = "done" /\ req.Method = "POST" /\ opts.verify) =>
        /\ ran # <<>>
        /\ ran[1] = "checkIntegrity"
        /\ checkIntegrity(opts.appSecret, req.Header, req.Body) # NoError =>
              \A n \in 1..Len(ran) : ran[n] # "json.Unmarshal"

(* The handlers in a slice. *)
Elements(hs) == {hs[k] : k \in 1..Len(hs)}

(* The registry's list for each kind of event. *)
RegisteredFor(a) ==
    handlers[CASE a = TextAction -> "messageHandlers"
               [] a = DeliveryAction -> "deliveryHandlers"
               [] a = ReadAction -> "readHandlers"
               [] a = PostBackAction -> "postBackHandlers"
               [] a = OptInAction -> "optInHandlers"
               [] a = ReferralAction -> "referralHandlers"
               [] a = AccountLinkingAction -> "accountLinkingHandlers"]

(* C21: every call for an event is of a handler registered for the kind    *)
(* the event classifies as, and of no handler that is registered for        *)
(* another kind.                                                            *)
C21_OnlyHandlersOfTheKind ==
    \A p \in 1..Len(calls) :
        LET a == classify(EventAt(rec, [i |-> calls[p].i, j |-> calls[p].j])) IN
        /\ a # UnknownAction
        /\ calls[p].action = a
        /\ calls[p].handler \in Elements(RegisteredFor(a))
        /\ \A b \in Kinds \ {a} : calls[p].handler \notin Elements(RegisteredFor(b))

C21_Witness ==
    /\ pc = "done"
    /\ handlers.messageHandlers # <<>>
    /\ handlers.deliveryHandlers # <<>>
    /\ rec.Entry = <<Entry(<<TextEvent>>)>>
    /\ Len(calls) = 1
    /\ calls[1].handler \in MessageHandlers

(* C23: the acknowledgment of a delivery is written only when no handler    *)
(* call is left to make: every call made has returned, an 'ok' stands after *)
(* all the calls that the envelope and the registry determine, the step     *)
(* that writes it calls no handler, and no call follows it.                 *)
C23_AckAfterHandlersReturned ==
    /\ []((req.Method # "GET" /\ response # <<>>) =>
            /\ pc = "done"
            /\ \A p \in 1..Len(calls) : calls[p].outcome = "returned"
            /\ response = <<Fprintln(Ok)>> => Made = ExpectedFrom(rec, handlers, 1))
    /\ [][(req.Method # "GET" /\ response' # response /\ response' # <<>>) =>
            /\ calls' = calls
            /\ pc \in {"handle", "ack"}]_vars
    /\ [][(response # <<>> /\ calls' # calls) => calls' = <<>>]_vars

C23_Witness ==
    /\ pc = "done"
    /\ response = <<Fprintln(Ok)>>
    /\ Len(calls) = 2
    /\ calls[1].outcome = "returned"
    /\ calls[2].outcome = "returned"

(* The events for which dispatch has built a Response so far: those of a    *)
(* known kind that its loops have passed or stand at with a handler called. *)
Built ==
    {n \in 1..Len(Order(rec)) :
        /\ classify(EventAt(rec, Order(rec)[n])) # UnknownAction
        /\ \/ n < pos.n
           \/ n = pos.n /\ pc \in {"invoke", "aborted"}}

(* C25: dispatch allocates one Response for each event of a known kind it   *)
(* comes to, before the first handler call for the event; it holds the      *)
(* access token of the Messenger and the event's sender; the calls for one  *)
(* event are given the same struct and the calls for two events never are.  *)
C25_OneResponsePerEvent ==
    /\ pc \in {"dispatch", "invoke", "ack", "done", "aborted"} =>
          Len(heap) = Cardinality(Built)
    /\ \A p \in 1..Len(calls) :
          /\ calls[p].at \in 1..Len(heap)
          /\ heap[calls[p].at] = calls[p].resp
          /\ calls[p].resp.token = opts.token
          /\ calls[p].resp.to.ID
                = EventAt(rec, [i |-> calls[p].i, j |-> calls[p].j]).Sender.ID
    /\ \A p, q \in 1..Len(calls) :
          (calls[p].i = calls[q].i /\ calls[p].j = calls[q].j) <=> calls[p].at = calls[q].at

C25_Witness ==
    /\ pc = "done"
    /\ Len(heap) = 2
    /\ Len(calls) = 2
    /\ calls[1].at = 1
    /\ calls[2].at = 2
    /\ calls[1].resp.to # calls[2].resp.to

(* C26: with verification off, a POST that decodes is never given to        *)
(* checkIntegrity, whatever its X-Hub-Signature header and whether or not   *)
(* an app secret is set: handle goes from decoding to dispatch, never       *)
(* answers 'not ok', and answers 'ok' after the calls of the envelope.      *)
C26_NoVerificationWhenDisabled ==
    (req.Method = "POST" /\ ~opts.verify /\ ~Unmarshal(req.Body).err /\ pc # "handle") =>
        /\ ran = <<"json.Unmarshal", "dispatch">>
        /\ response \in {<<>>, <<Fprintln(Ok)>>}
        /\ IsPrefix(Made, ExpectedFrom(rec, handlers, 1))
        /\ pc \in {"ack", "done"} => Made = ExpectedFrom(rec, handlers, 1)
        /\ pc = "done" => response = <<Fprintln(Ok)>>

C26_Witness ==
    /\ pc = "done"
    /\ req.Method = "POST"
    /\ ~opts.verify
    /\ opts.appSecret = "k1"
    /\ req.Header = <<>>
    /\ Len(calls) = 1
    /\ response = <<Fprintln(Ok)>>

(* The request with POST for its method. *)
AsPost(r) == [r EXCEPT !.Method = "POST"]

(* C28: a GET is answered by the verification handler alone, without        *)
(* json.Unmarshal, checkIntegrity or any handler being called, whatever its *)
(* query, its body and the verify flag; a request of any other method is    *)
(* served as the POST of the same header and body is: decoded, verified if  *)
(* verification is on, dispatched and acknowledged.                         *)
C28_OnlyGetIsVerification ==
    (pc \notin {"idle", "handle"}) =>
        IF req.Method = "GET"
        THEN /\ ran = <<"verifyHandler">>
             /\ calls = <<>>
             /\ heap = <<>>
             /\ pc = "done"
             /\ response \in {<<Fprintln(FormValue(req, "hub.challenge"))>>,
                              <<Fprintln(IncorrectVerifyToken)>>}
        ELSE /\ ran = handleCalls(opts, AsPost(req))
             /\ ran[1] = "json.Unmarshal"
             /\ opts.verify /\ ~Unmarshal(req.Body).err => ran[2] = "checkIntegrity"
             /\ IF ran[Len(ran)] = "dispatch"
                THEN /\ IsPrefix(Made, ExpectedFrom(rec, handlers, 1))
                     /\ pc \in {"ack", "done"} => Made = ExpectedFrom(rec, handlers, 1)
                     /\ pc = "done" => response = <<Fprintln(Ok)>>
                ELSE /\ calls = <<>>
                     /\ pc = "done"
                     /\ response = <<Fprintln(NotOk)>>

C28_Witness ==
    /\ pc = "done"
    /\ req.Method = "PUT"
    /\ opts.verify
    /\ ran = <<"json.Unmarshal", "checkIntegrity", "dispatch">>
    /\ Len(calls) = 1
    /\ response = <<Fprintln(Ok)>>

(* C9: when a delivery has ended, exactly one acknowledgment has been       *)
(* written: 'ok' if it decoded and passed verification, whatever its        *)
(* events and handlers did, and 'not ok' otherwise.                         *)
C9_EveryDeliveryIsAcknowledged ==
    (Ended /\ req.Method = "POST") =>
        response = <<Fprintln(IF Accepted THEN Ok ELSE NotOk)>>

(* C10 as claimed: a GET is answered with the challenge when the            *)
(* hub.verify_token parameter is present and equals the configured token,   *)
(* and with 'Incorrect verify token.' for every other token, an absent      *)
(* one included.                                                            *)
C10_AbsentTokenIsRejected ==
    (pc = "done" /\ req.Method = "GET") =>
        response =
            << IF /\ req.Form["hub.verify_token"] # Nil
                  /\ Deref(req.Form["hub.verify_token"]) = opts.verifyToken
               THEN Fprintln(FormValue(req, "hub.challenge"))
               ELSE Fprintln(IncorrectVerifyToken) >>

(* C10 as amended: a GET is answered with the challenge when the            *)
(* hub.verify_token parameter, read as the empty string when it is absent,  *)
(* equals the configured token, and with 'Incorrect verify token.'          *)
(* otherwise.                                                               *)
C10_TokenReadAsEmptyWhenAbsent ==
    (pc = "done" /\ req.Method = "GET") =>
        LET token == IF req.Form["hub.verify_token"] = Nil THEN ""
                     ELSE Deref(req.Form["hub.verify_token"])
            challenge == IF req.Form["hub.challenge"] = Nil THEN ""
                         ELSE Deref(req.Form["hub.challenge"])
        IN response =
            << IF token = opts.verifyToken THEN challenge \o "\n"
               ELSE "Incorrect verify token.\n" >>

C10_Witness ==
    /\ pc = "done"
    /\ req.Method = "GET"
    /\ req.Form["hub.verify_token"] = Nil
    /\ req.Form["hub.challenge"] = Ptr("c1")
    /\ opts.verifyToken = ""
    /\ response = <<"c1\n">>


---------------------------------------------------------------------------
(* Properties of two requests served at once (SpecPair) *)

(* The calls that request r makes when it is served alone, from the event   *)
(* at index n of its order on: event, handler, payload and reply target.    *)
RECURSIVE AloneFrom(_, _)
AloneFrom(r, n) ==
    IF n > Len(Order(r)) THEN <<>>
    ELSE LET p == Order(r)[n]
             info == EventAt(r, p)
             a == classify(info)
             hs == IF a = UnknownAction THEN <<>> ELSE HandlersFor(handlers, a)
         IN [k \in 1..Len(hs) |->
                [i |-> p.i, j |-> p.j, action |-> a, handler |-> hs[k], k |-> k,
                 arg |-> Argument(a, info),
                 resp |-> [to |-> Recipient(info.Sender.ID), token |-> opts.token]]]
            \o AloneFrom(r, n + 1)

(* What request r makes and writes when it is served alone and no handler   *)
(* panics.                                                                  *)
Alone(r) ==
    LET path == handlePath(opts, r) IN
    [calls |-> IF path = "dispatch" THEN AloneFrom(Unmarshal(r.Body).rec, 1) ELSE <<>>,
     response |-> CASE path = "verify" -> <<verifyHandler(opts.verifyToken, r)>>
                    [] path = "not ok" -> <<Fprintln(NotOk)>>
                    [] path = "dispatch" -> <<Fprintln(Ok)>>]

MadeBy(f) == [p \in 1..Len(f.calls) |-> [x \in DOMAIN f.calls[p] \ {"outcome"} |-> f.calls[p][x]]]

(* C24: with the registry unchanged, under every interleaving of two        *)
(* requests served at once, the calls each request has made are the first   *)
(* calls it makes when served alone, each with the payload and the reply    *)
(* target of its own event; it stops short of them only at a call of its    *)
(* own that panicked, and when it is done it has made them all and written  *)
(* the response it writes when served alone.                                *)
C24_ConcurrentRequestsIndependent ==
    \A i \in DOMAIN serving :
        LET f == serving[i] IN
        /\ IsPrefix(MadeBy(f), Alone(f.req).calls)
        /\ f.pc = "done" => MadeBy(f) = Alone(f.req).calls /\ f.response = Alone(f.req).response
        /\ f.pc = "aborted" => f.calls[Len(f.calls)].outcome = "panicked" /\ f.response = <<>>
        /\ f.pc \notin {"done", "aborted"} => f.response = <<>>

C24_Witness ==
    /\ Len(serving) = 2
    /\ serving[1].pc = "invoke"
    /\ serving[2].pc = "invoke"
    /\ Len(serving[1].calls) = 1
    /\ Len(serving[2].calls) = 1
    /\ serving[1].calls[1].resp.to # serving[2].calls[1].resp.to

====
